---- MODULE Spec2Model ----
(***************************************************************************)
(* Model of threedistvis-go: the WebAssembly point-cloud renderer          *)
(* (wasm/main.go) and the static asset server (main.go).                   *)
(*                                                                         *)
(* Numbers.  float32 values are modelled exactly as integers in a fixed    *)
(* unit, rounded to 24 significant bits (round to nearest, ties to even)   *)
(* after every arithmetic operation, as IEEE-754 binary32 does:            *)
(*   - the rotation angle is counted in units of 2^-30;                    *)
(*   - random values and point coordinates are counted in units of 2^-29.  *)
(* math.Sin / math.Cos belong to the Go standard library; they are         *)
(* modelled by their Taylor polynomials in fixed point, units of 2^-14.    *)
(***************************************************************************)
EXTENDS Integers, Sequences, FiniteSets, TLC

\* ---------------------------------------------------------------- bounds
MaxFrames == 6
MaxRequests == 2
NumSeeds == 3

\* ------------------------------------------------------ program constants
NumValues == 300
Components == 3
DrawCount == 100

\* float32(0.01) = 10737418 * 2^-30
AngleStep == 10737418
\* 1.0 in units of 2^-29 (coordinates)
CoordOne == 536870912
\* 1.0 in units of 2^-14 (matrix entries)
TrigOne == 16384

VARIABLES pc, gl, seed, i, points, angle, mvp, pcR, rafQueue, tick, calls,
          srvPc, srvOut, srvServed, srvBinds, srvErr

rvars == <<pc, gl, seed, i, points, angle, mvp, pcR, rafQueue, tick, calls>>
svars == <<srvPc, srvOut, srvServed, srvBinds, srvErr>>
vars == <<pc, gl, seed, i, points, angle, mvp, pcR, rafQueue, tick, calls,
          srvPc, srvOut, srvServed, srvBinds, srvErr>>

\* ------------------------------------------------------ float32 arithmetic
Abs(x) == IF x < 0 THEN -x ELSE x

RECURSIVE Shift(_)
\* number of low bits a magnitude loses when kept to 24 significant bits
Shift(v) == IF v < 16777216 THEN 0 ELSE 1 + Shift(v \div 2)

Pow2(k) == 2 ^ k

\* spacing of the float32 values around magnitude v (in the unit of v)
Ulp(v) == Pow2(Shift(Abs(v)))

\* round a magnitude to 24 significant bits, ties to even
RoundMag(v) ==
    LET p == Pow2(Shift(v))
        q == v \div p
        r == v % p
    IN  IF r * 2 > p \/ (r * 2 = p /\ q % 2 = 1)
        THEN (q + 1) * p
        ELSE q * p

RoundF32(x) == IF x < 0 THEN -RoundMag(-x) ELSE RoundMag(x)

F32Add(a, b) == RoundF32(a + b)

\* ------------------------------------------------------------ random source
\* float32 values in [0, 1), units of 2^-29: 0, the smallest steps above 0,
\* 0.3, 0.5, a value just above 0.5 and the largest float32 below 1.
RandValues == <<0, 1, 3, 161061280, 268435456, 268435488, 536870880>>

\* the i-th value of the stream that rand.Float32 yields for a given seed
RandFloat32(sd, k) == RandValues[((sd * 3 + k * (sd + 1)) % Len(RandValues)) + 1]

\* mutant of Coord: the shift by -1 is forgotten
CoordUnshifted(r) == RoundF32(r * 2)

\* rand.Float32()*2 - 1, each operation rounded to float32
Coord(r) == F32Add(RoundF32(r * 2), -CoordOne)

\* ------------------------------------------------------------- view matrix
\* math.Sin, math.Cos of an angle given in units of 2^-30; result in 2^-14
Sin(a) ==
    LET y == a \div 65536
        y2 == (y * y) \div TrigOne
        y3 == (y2 * y) \div TrigOne
        y5 == (y3 * y2) \div TrigOne
    IN  y - (y3 \div 6) + (y5 \div 120)

Cos(a) ==
    LET y == a \div 65536
        y2 == (y * y) \div TrigOne
        y4 == (y2 * y2) \div TrigOne
    IN  TrigOne - (y2 \div 2) + (y4 \div 24)

\* mutant of Mvp: the signs of the two sine entries are exchanged
MvpSignSwapped(a) ==
    LET s == Sin(a)
        c == Cos(a)
    IN  << c, 0, -s, 0,
           0, TrigOne, 0, 0,
           s, 0, c, 0,
           0, 0, -2 * TrigOne, TrigOne >>

Mvp(a) ==
    LET s == Sin(a)
        c == Cos(a)
    IN  << c, 0, s, 0,
           0, TrigOne, 0, 0,
           -s, 0, c, 0,
           0, 0, -2 * TrigOne, TrigOne >>

\* ------------------------------------------------- recorded environment calls
Call(target, fn, tag, n, data) ==
    [target |-> target, fn |-> fn, tag |-> tag, n |-> n, data |-> data]

GL(fn, tag, n, data) == Call("gl", fn, tag, n, data)

Global(fn, tag) == Call("global", fn, tag, 0, <<>>)

\* ------------------------------------------------------------------- Init
Init ==
    /\ pc = "getContext"
    /\ gl = "unset"
    /\ seed \in 0..(NumSeeds - 1)
    /\ i = 0
    /\ points = <<>>
    /\ angle = 0
    /\ mvp = <<>>
    /\ pcR = "idle"
    /\ rafQueue = 0
    /\ tick = 0
    /\ calls = <<>>
    /\ srvPc = "setup"
    /\ srvOut = <<>>
    /\ srvServed = 0
    /\ srvBinds = 0
    /\ srvErr = "none"

\* --------------------------------------------------- renderer: initialization
\* canvas.Call("getContext", "webgl"): a context, or null
GetContext ==
    /\ pc = "getContext"
    /\ \E ok \in BOOLEAN :
         /\ gl' = IF ok THEN "context" ELSE "null"
         /\ pc' = IF ok THEN "setup" ELSE "alert"
    /\ UNCHANGED <<seed, i, points, angle, mvp, pcR, rafQueue, tick, calls>>
    /\ UNCHANGED svars

\* mutant of AlertAndReturn: the return after the alert is missing
AlertAndContinue ==
    /\ pc = "alert"
    /\ calls' = Append(calls, Global("alert", "WebGL not supported"))
    /\ pc' = "setup"
    /\ UNCHANGED <<gl, seed, i, points, angle, mvp, pcR, rafQueue, tick>>
    /\ UNCHANGED svars

\* if gl.IsNull() { alert(...); return }
AlertAndReturn ==
    /\ pc = "alert"
    /\ calls' = Append(calls, Global("alert", "WebGL not supported"))
    /\ pc' = "exited"
    /\ UNCHANGED <<gl, seed, i, points, angle, mvp, pcR, rafQueue, tick>>
    /\ UNCHANGED svars

\* mutant of SetUpWebGL: initialization sets the clear colour but does not clear
SetUpWebGLNoClear ==
    /\ pc = "setup"
    /\ calls' = Append(calls, GL("clearColor", "0,0,0,1", 0, <<>>))
    /\ points' = [k \in 1..NumValues |-> 0]
    /\ i' = 0
    /\ pc' = "points"
    /\ UNCHANGED <<gl, seed, angle, mvp, pcR, rafQueue, tick>>
    /\ UNCHANGED svars

\* clearColor, clear, then points := make([]float32, 300)
SetUpWebGL ==
    /\ pc = "setup"
    /\ calls' = calls \o << GL("clearColor", "0,0,0,1", 0, <<>>),
                            GL("clear", "COLOR_BUFFER_BIT", 0, <<>>) >>
    /\ points' = [k \in 1..NumValues |-> 0]
    /\ i' = 0
    /\ pc' = "points"
    /\ UNCHANGED <<gl, seed, angle, mvp, pcR, rafQueue, tick>>
    /\ UNCHANGED svars

\* one iteration of: for i := 0; i < 300; i++ { points[i] = ... }
GeneratePoint ==
    /\ pc = "points"
    /\ i < NumValues
    /\ points' = [points EXCEPT ![i + 1] = Coord(RandFloat32(seed, i))]
    /\ i' = i + 1
    /\ UNCHANGED <<pc, gl, seed, angle, mvp, pcR, rafQueue, tick, calls>>
    /\ UNCHANGED svars

\* loop exit, then createBuffer, bindBuffer, bufferData
SetUpVertexBuffer ==
    /\ pc = "points"
    /\ i >= NumValues
    /\ calls' = calls \o << GL("createBuffer", "", 0, <<>>),
                            GL("bindBuffer", "ARRAY_BUFFER", 0, <<>>),
                            GL("bufferData", "STATIC_DRAW", 0, points) >>
    /\ pc' = "vshader"
    /\ UNCHANGED <<gl, seed, i, points, angle, mvp, pcR, rafQueue, tick>>
    /\ UNCHANGED svars

CompileVertexShader ==
    /\ pc = "vshader"
    /\ calls' = calls \o << GL("createShader", "VERTEX_SHADER", 0, <<>>),
                            GL("shaderSource", "VERTEX_SHADER", 0, <<>>),
                            GL("compileShader", "VERTEX_SHADER", 0, <<>>) >>
    /\ pc' = "fshader"
    /\ UNCHANGED <<gl, seed, i, points, angle, mvp, pcR, rafQueue, tick>>
    /\ UNCHANGED svars

CompileFragmentShader ==
    /\ pc = "fshader"
    /\ calls' = calls \o << GL("createShader", "FRAGMENT_SHADER", 0, <<>>),
                            GL("shaderSource", "FRAGMENT_SHADER", 0, <<>>),
                            GL("compileShader", "FRAGMENT_SHADER", 0, <<>>) >>
    /\ pc' = "program"
    /\ UNCHANGED <<gl, seed, i, points, angle, mvp, pcR, rafQueue, tick>>
    /\ UNCHANGED svars

CreateProgram ==
    /\ pc = "program"
    /\ calls' = calls \o << GL("createProgram", "", 0, <<>>),
                            GL("attachShader", "VERTEX_SHADER", 0, <<>>),
                            GL("attachShader", "FRAGMENT_SHADER", 0, <<>>),
                            GL("linkProgram", "", 0, <<>>),
                            GL("useProgram", "", 0, <<>>) >>
    /\ pc' = "attrib"
    /\ UNCHANGED <<gl, seed, i, points, angle, mvp, pcR, rafQueue, tick>>
    /\ UNCHANGED svars

SetUpAttribute ==
    /\ pc = "attrib"
    /\ calls' = calls \o << GL("getAttribLocation", "position", 0, <<>>),
                            GL("enableVertexAttribArray", "position", 0, <<>>),
                            GL("vertexAttribPointer", "FLOAT", Components, <<>>) >>
    /\ pc' = "uniform"
    /\ UNCHANGED <<gl, seed, i, points, angle, mvp, pcR, rafQueue, tick>>
    /\ UNCHANGED svars

\* mutant of LocateUniform: the uniform location is never looked up
LocateUniformSkipped ==
    /\ pc = "uniform"
    /\ pc' = "register"
    /\ UNCHANGED <<gl, seed, i, points, angle, mvp, pcR, rafQueue, tick, calls>>
    /\ UNCHANGED svars

LocateUniform ==
    /\ pc = "uniform"
    /\ calls' = Append(calls, GL("getUniformLocation", "modelViewProjection", 0, <<>>))
    /\ pc' = "register"
    /\ UNCHANGED <<gl, seed, i, points, angle, mvp, pcR, rafQueue, tick>>
    /\ UNCHANGED svars

\* var angle float32; render := js.FuncOf(...); requestAnimationFrame(render); <-c
RegisterRender ==
    /\ pc = "register"
    /\ angle' = 0
    /\ calls' = Append(calls, Global("requestAnimationFrame", "render"))
    /\ rafQueue' = rafQueue + 1
    /\ pc' = "blocked"
    /\ UNCHANGED <<gl, seed, i, points, mvp, pcR, tick>>
    /\ UNCHANGED svars

\* ------------------------------------------------------ renderer: frame tick
\* the frame scheduler takes a registered callback and invokes it; callbacks
\* run one at a time, and only while the main goroutine is parked on <-c
FrameTick ==
    /\ pc = "blocked"
    /\ pcR = "idle"
    /\ rafQueue > 0
    /\ tick < MaxFrames
    /\ rafQueue' = rafQueue - 1
    /\ tick' = tick + 1
    /\ pcR' = "advance"
    /\ UNCHANGED <<pc, gl, seed, i, points, angle, mvp, calls>>
    /\ UNCHANGED svars

\* mutant of RenderAdvance: the angle is assigned the step instead of advanced
RenderAdvanceAssign ==
    /\ pcR = "advance"
    /\ angle' = AngleStep
    /\ pcR' = "matrix"
    /\ UNCHANGED <<pc, gl, seed, i, points, mvp, rafQueue, tick, calls>>
    /\ UNCHANGED svars

\* angle += 0.01
RenderAdvance ==
    /\ pcR = "advance"
    /\ angle' = F32Add(angle, AngleStep)
    /\ pcR' = "matrix"
    /\ UNCHANGED <<pc, gl, seed, i, points, mvp, rafQueue, tick, calls>>
    /\ UNCHANGED svars

\* s, c := sin, cos; mvp := []float32{...}
RenderBuildMatrix ==
    /\ pcR = "matrix"
    /\ mvp' = Mvp(angle)
    /\ pcR' = "upload"
    /\ UNCHANGED <<pc, gl, seed, i, points, angle, rafQueue, tick, calls>>
    /\ UNCHANGED svars

\* mutant of RenderUpload: the frame is cleared before the matrix is uploaded
RenderUploadAfterClear ==
    /\ pcR = "upload"
    /\ calls' = calls \o << GL("clear", "COLOR_BUFFER_BIT", 0, <<>>),
                            GL("uniformMatrix4fv", "modelViewProjection", 0, mvp) >>
    /\ pcR' = "draw"
    /\ UNCHANGED <<pc, gl, seed, i, points, angle, mvp, rafQueue, tick>>
    /\ UNCHANGED svars

RenderUpload ==
    /\ pcR = "upload"
    /\ calls' = Append(calls, GL("uniformMatrix4fv", "modelViewProjection", 0, mvp))
    /\ pcR' = "clear"
    /\ UNCHANGED <<pc, gl, seed, i, points, angle, mvp, rafQueue, tick>>
    /\ UNCHANGED svars

RenderClear ==
    /\ pcR = "clear"
    /\ calls' = Append(calls, GL("clear", "COLOR_BUFFER_BIT", 0, <<>>))
    /\ pcR' = "draw"
    /\ UNCHANGED <<pc, gl, seed, i, points, angle, mvp, rafQueue, tick>>
    /\ UNCHANGED svars

\* mutant of RenderDraw: the draw count is the number of scalars, not of points
RenderDrawAllValues ==
    /\ pcR = "draw"
    /\ calls' = Append(calls, GL("drawArrays", "POINTS", NumValues, <<0>>))
    /\ pcR' = "reregister"
    /\ UNCHANGED <<pc, gl, seed, i, points, angle, mvp, rafQueue, tick>>
    /\ UNCHANGED svars

RenderDraw ==
    /\ pcR = "draw"
    /\ calls' = Append(calls, GL("drawArrays", "POINTS", DrawCount, <<0>>))
    /\ pcR' = "reregister"
    /\ UNCHANGED <<pc, gl, seed, i, points, angle, mvp, rafQueue, tick>>
    /\ UNCHANGED svars

\* mutant of RenderReRegister: the callback returns without re-registering
RenderReturnOnly ==
    /\ pcR = "reregister"
    /\ mvp' = <<>>
    /\ pcR' = "idle"
    /\ UNCHANGED <<pc, gl, seed, i, points, angle, rafQueue, tick, calls>>
    /\ UNCHANGED svars

\* requestAnimationFrame(render); return nil
RenderReRegister ==
    /\ pcR = "reregister"
    /\ calls' = Append(calls, Global("requestAnimationFrame", "render"))
    /\ rafQueue' = rafQueue + 1
    /\ mvp' = <<>>
    /\ pcR' = "idle"
    /\ UNCHANGED <<pc, gl, seed, i, points, angle, tick>>
    /\ UNCHANGED svars

\* ------------------------------------------------------- static asset server
Paths == {"/", "/index.html", "/missing"}

\* http.FileServer(http.Dir("wasm")): status for a GET
Status(path) == IF path \in {"/", "/index.html"} THEN 200 ELSE 404

\* http.Handle("/", fs); fmt.Println("Server running ...")
ServerSetup ==
    /\ srvPc = "setup"
    /\ srvOut' = Append(srvOut, "Server running at http://localhost:8080")
    /\ srvPc' = "listen"
    /\ UNCHANGED <<srvServed, srvBinds, srvErr>>
    /\ UNCHANGED rvars

\* http.ListenAndServe(":8080", nil): binds and serves, or fails to bind
ServerListen ==
    /\ srvPc = "listen"
    /\ srvBinds' = srvBinds + 1
    /\ \E ok \in BOOLEAN :
         /\ srvPc' = IF ok THEN "serving" ELSE "report"
         /\ srvErr' = IF ok THEN srvErr ELSE "bind"
    /\ UNCHANGED <<srvOut, srvServed>>
    /\ UNCHANGED rvars

\* one GET answered by the file server
ServeRequest ==
    /\ srvPc = "serving"
    /\ srvServed < MaxRequests
    /\ \E path \in Paths :
         /\ Status(path) \in {200, 404}
         /\ srvServed' = srvServed + 1
    /\ UNCHANGED <<srvPc, srvOut, srvBinds, srvErr>>
    /\ UNCHANGED rvars

\* the listener fails while serving: ListenAndServe returns the error
ServerAcceptFail ==
    /\ srvPc = "serving"
    /\ srvErr' = "accept"
    /\ srvPc' = "report"
    /\ UNCHANGED <<srvOut, srvServed, srvBinds>>
    /\ UNCHANGED rvars

\* mutant of ServerReport: after reporting, the server binds again
ServerReportAndRetry ==
    /\ srvPc = "report"
    /\ srvOut' = Append(srvOut, "Server error:")
    /\ srvPc' = "listen"
    /\ UNCHANGED <<srvServed, srvBinds, srvErr>>
    /\ UNCHANGED rvars

\* if err != nil { fmt.Println("Server error:", err) }; main returns
ServerReport ==
    /\ srvPc = "report"
    /\ srvOut' = Append(srvOut, "Server error:")
    /\ srvPc' = "exited"
    /\ UNCHANGED <<srvServed, srvBinds, srvErr>>
    /\ UNCHANGED rvars

\* ---------------------------------------------------------- specifications
Next ==
    \/ GetContext
    \/ AlertAndReturn
    \/ SetUpWebGL
    \/ GeneratePoint
    \/ SetUpVertexBuffer
    \/ CompileVertexShader
    \/ CompileFragmentShader
    \/ CreateProgram
    \/ SetUpAttribute
    \/ LocateUniform
    \/ RegisterRender
    \/ FrameTick
    \/ RenderAdvance
    \/ RenderBuildMatrix
    \/ RenderUpload
    \/ RenderClear
    \/ RenderDraw
    \/ RenderReRegister
    \/ ServerSetup
    \/ ServerListen
    \/ ServeRequest
    \/ ServerAcceptFail
    \/ ServerReport

Spec == Init /\ [][Next]_vars

TypeOK ==
    /\ pc \in {"getContext", "alert", "exited", "setup", "points", "vshader",
               "fshader", "program", "attrib", "uniform", "register", "blocked"}
    /\ gl \in {"unset", "null", "context"}
    /\ pcR \in {"idle", "advance", "matrix", "upload", "clear", "draw", "reregister"}
    /\ i \in 0..NumValues
    /\ tick \in 0..MaxFrames
    /\ rafQueue \in 0..MaxFrames
    /\ srvPc \in {"setup", "listen", "serving", "report", "exited"}
    /\ srvErr \in {"none", "bind", "accept"}

\* fairness: the main goroutine keeps running its straight-line code, the
\* frame scheduler keeps invoking registered callbacks, a running callback
\* runs to its return
RendererNext ==
    \/ GetContext
    \/ AlertAndReturn
    \/ SetUpWebGL
    \/ GeneratePoint
    \/ SetUpVertexBuffer
    \/ CompileVertexShader
    \/ CompileFragmentShader
    \/ CreateProgram
    \/ SetUpAttribute
    \/ LocateUniform
    \/ RegisterRender
    \/ FrameTick
    \/ RenderAdvance
    \/ RenderBuildMatrix
    \/ RenderUpload
    \/ RenderClear
    \/ RenderDraw
    \/ RenderReRegister

FairSpec == Init /\ [][Next]_vars /\ WF_vars(RendererNext)

\* ------------------------------------------------------------ helper views
CallsOf(fn) == {k \in DOMAIN calls : calls[k].fn = fn}

NumCalls(fn) == Cardinality(CallsOf(fn))

GLCalls == {k \in DOMAIN calls : calls[k].target = "gl"}

Registered == CallsOf("requestAnimationFrame") # {}

\* index of the first registration of the frame callback
FirstRegistration ==
    CHOOSE k \in CallsOf("requestAnimationFrame") :
        \A j \in CallsOf("requestAnimationFrame") : k <= j

\* the calls recorded after initialization, i.e. by frame ticks
TickCalls == SubSeq(calls, FirstRegistration + 1, Len(calls))

TickPattern == <<"uniformMatrix4fv", "clear", "drawArrays", "requestAnimationFrame">>

\* how many calls the running tick has made so far
StepsDone ==
    CASE pcR = "idle" -> IF tick = 0 THEN 0 ELSE 4
      [] pcR \in {"advance", "matrix", "upload"} -> 0
      [] pcR = "clear" -> 1
      [] pcR = "draw" -> 2
      [] pcR = "reregister" -> 3

\* number of angle updates performed so far
Advanced == IF pcR = "advance" THEN tick - 1 ELSE tick

RECURSIVE AngleAfter(_)
\* the angle after n float32 additions of the step to 0
AngleAfter(n) == IF n = 0 THEN 0 ELSE RoundF32(AngleAfter(n - 1) + AngleStep)

\* number of the tick that made the k-th tick call
TickOf(k) == ((k - 1) \div 4) + 1

OneTickDone == pc = "blocked" /\ tick = 1 /\ pcR = "idle"

\* --------------------------------------------------------------------- C1
\* C1 (as stated): after initialization and exactly one frame tick the
\* context has recorded exactly one clear, exactly one draw of 100 points and
\* exactly one uniform upload, in the order upload, clear, draw.
C1_OneClearAfterOneTick ==
    OneTickDone =>
        /\ NumCalls("clear") = 1
        /\ NumCalls("drawArrays") = 1
        /\ NumCalls("uniformMatrix4fv") = 1
        /\ \A d \in CallsOf("drawArrays") : calls[d].n = 100
        /\ \E u \in CallsOf("uniformMatrix4fv"), c \in CallsOf("clear"),
              d \in CallsOf("drawArrays") : u < c /\ c < d

\* C1 (amended): after initialization and exactly one frame tick the context
\* has recorded exactly two clears (one made by initialization, one by the
\* tick), exactly one draw of 100 points and exactly one uniform upload; the
\* initialization clear comes first, and the tick's calls are in the order
\* upload, clear, draw.
C1_TwoClearsAfterOneTick ==
    OneTickDone =>
        /\ NumCalls("clear") = 2
        /\ NumCalls("drawArrays") = 1
        /\ NumCalls("uniformMatrix4fv") = 1
        /\ \A d \in CallsOf("drawArrays") : calls[d].n = 100
        /\ \E c0 \in CallsOf("clear"), u \in CallsOf("uniformMatrix4fv"),
              c1 \in CallsOf("clear"), d \in CallsOf("drawArrays") :
                /\ c0 < FirstRegistration
                /\ FirstRegistration < u
                /\ c1 = u + 1
                /\ d = c1 + 1

C1_Witness == OneTickDone /\ NumCalls("drawArrays") = 1

\* --------------------------------------------------------------------- C2
\* C2: when getContext returns null the renderer raises one alert and
\* returns: no graphics call is ever recorded, no frame callback is ever
\* registered, no tick runs, and the program goes nowhere but to its exit.
C2_NullContextFailsFast ==
    gl = "null" =>
        /\ pc \in {"alert", "exited"}
        /\ GLCalls = {}
        /\ NumCalls("alert") = (IF pc = "exited" THEN 1 ELSE 0)
        /\ ~Registered
        /\ rafQueue = 0
        /\ tick = 0
        /\ pcR = "idle"
        /\ points = <<>>

C2_Witness == gl = "null" /\ pc = "exited" /\ NumCalls("alert") = 1

\* --------------------------------------------------------------------- C3
\* C3: the calls made by frame ticks repeat the pattern upload, clear,
\* draw(100), re-register, one of each per tick; the running tick has made
\* exactly the calls its position says; the angle is advanced before the
\* matrix is built, and the matrix uploaded by tick n is the one built from
\* the angle after n advances.
C3_TickStepOrder ==
    Registered =>
        /\ Len(TickCalls) = (IF tick = 0 THEN 0 ELSE 4 * (tick - 1) + StepsDone)
        /\ \A k \in DOMAIN TickCalls :
             /\ TickCalls[k].fn = TickPattern[((k - 1) % 4) + 1]
             /\ TickCalls[k].fn = "drawArrays" => TickCalls[k].n = 100
             /\ TickCalls[k].fn = "uniformMatrix4fv" =>
                    TickCalls[k].data = Mvp(AngleAfter(TickOf(k)))
        /\ angle = AngleAfter(Advanced)
        /\ pcR \in {"upload", "clear", "draw", "reregister"} => mvp = Mvp(angle)

C3_Witness ==
    /\ tick = 3
    /\ pcR = "idle"
    /\ Len(TickCalls) = 12
    /\ TickCalls[9].data # TickCalls[5].data

\* --------------------------------------------------------------------- C4
\* C4: once initialization has succeeded, exactly one frame callback is
\* registered whenever no tick is executing and none while one is executing
\* (so ticks cannot overlap); ticks are numbered one by one, each started
\* only when none is running, and every tick number up to the modelled bound
\* is eventually reached and completed.
C4_LoopNeverStops ==
    /\ [](pc = "blocked" => rafQueue = (IF pcR = "idle" THEN 1 ELSE 0))
    /\ [](pc # "blocked" => pcR = "idle" /\ tick = 0)
    /\ [][tick' = tick \/ (tick' = tick + 1 /\ pcR = "idle" /\ pcR' = "advance")]_vars
    /\ (pc = "blocked") ~> (tick = MaxFrames /\ pcR = "idle" /\ rafQueue = 1)

C4_Witness == pc = "blocked" /\ tick >= 2 /\ pcR = "idle" /\ rafQueue = 1

\* --------------------------------------------------------------------- C5
\* C5 (as stated): after N angle updates the angle equals N times the step.
C5_AngleIsExactMultiple ==
    angle = Advanced * AngleStep

\* C5 (amended): the angle starts at 0 and after N ticks is the result of N
\* successive float32 additions of the step float32(0.01), which agrees with
\* N x 0.01 only up to rounding (within N/2 units in the last place of the
\* angle); it never decreases or resets, only the frame step writes it, and
\* the first drawn frame uses float32(0.01), not 0.
C5_AngleAccumulatesRounded ==
    /\ [](/\ angle = AngleAfter(Advanced)
          /\ Advanced = 0 => angle = 0
          /\ 2 * Abs(angle - Advanced * AngleStep) <= Advanced * Ulp(angle)
          /\ \A u \in CallsOf("uniformMatrix4fv") :
               (\A v \in CallsOf("uniformMatrix4fv") : u <= v) =>
                   /\ calls[u].data = Mvp(AngleStep)
                   /\ calls[u].data # Mvp(0))
    /\ [][/\ angle' >= angle
          /\ angle' # angle => pcR = "advance" /\ pcR' = "matrix"]_vars

C5_Witness == tick = 5 /\ pcR = "idle" /\ angle # 5 * AngleStep

\* --------------------------------------------------------------------- C6
\* C6: every uploaded matrix has 16 elements whose fixed entries are the
\* identity Y row/column, the translation (0, 0, -2) and the last column
\* (0, 0, 0, 1), and whose remaining entries are cos, sin, -sin, cos of the
\* angle of its frame; equal angles give equal matrices, the matrix just
\* uploaded is the one of the current angle, and none is kept between frames.
C6_MatrixShape ==
    /\ \A k \in CallsOf("uniformMatrix4fv") :
         LET m == calls[k].data
             a == AngleAfter(TickOf(k - FirstRegistration))
         IN  /\ Len(m) = 16
             /\ m[2] = 0 /\ m[5] = 0 /\ m[7] = 0 /\ m[10] = 0
             /\ m[6] = TrigOne
             /\ m[13] = 0 /\ m[14] = 0 /\ m[15] = -2 * TrigOne
             /\ m[4] = 0 /\ m[8] = 0 /\ m[12] = 0
             /\ m[16] = TrigOne
             /\ m[1] = Cos(a) /\ m[11] = Cos(a)
             /\ m[3] = Sin(a) /\ m[9] = -Sin(a)
    /\ \A j, k \in CallsOf("uniformMatrix4fv") :
         AngleAfter(TickOf(j - FirstRegistration)) =
             AngleAfter(TickOf(k - FirstRegistration))
           => calls[j].data = calls[k].data
    /\ pcR = "clear" => calls[Len(calls)].data = Mvp(angle)
    /\ pcR \in {"idle", "advance", "matrix"} => mvp = <<>>

C6_Witness ==
    /\ NumCalls("uniformMatrix4fv") >= 2
    /\ pcR = "clear"
    /\ calls[Len(calls)].data[3] > 0
    /\ calls[Len(calls)].data[9] < 0
    /\ calls[Len(calls)].data[1] < TrigOne

\* --------------------------------------------------------------------- C7
\* C7: once allocated the point set has 300 values; it is uploaded at most
\* once, by initialization, with all 300 generated values; after the upload
\* it never differs from what was uploaded; every draw call passes the
\* number of uploaded values divided by the attribute's component count.
C7_PointSetUploadedOnce ==
    /\ pc \notin {"getContext", "alert", "exited", "setup"} => Len(points) = NumValues
    /\ NumCalls("bufferData") <= 1
    /\ NumCalls("createBuffer") <= 1
    /\ pc \in {"vshader", "fshader", "program", "attrib", "uniform", "register", "blocked"}
         => NumCalls("bufferData") = 1
    /\ \A b \in CallsOf("bufferData") :
         /\ calls[b].data = points
         /\ Len(calls[b].data) = 300
         /\ i = NumValues
         /\ Registered => b < FirstRegistration
    /\ \A d \in CallsOf("drawArrays") :
         /\ calls[d].n = 100
         /\ \E b \in CallsOf("bufferData"), a \in CallsOf("vertexAttribPointer") :
              /\ b < d /\ a < d
              /\ calls[a].n = 3
              /\ calls[d].n * calls[a].n = Len(calls[b].data)

C7_Witness ==
    /\ NumCalls("drawArrays") >= 2
    /\ NumCalls("bufferData") = 1
    /\ \E j, k \in DOMAIN points : points[j] # points[k]

\* --------------------------------------------------------------------- C8
\* C8: every stored coordinate r*2 - 1 is at least -1 and strictly below 1,
\* and all 300 of them have been generated when the loop is left.
C8_CoordinatesInRange ==
    /\ \A k \in DOMAIN points : -CoordOne <= points[k] /\ points[k] < CoordOne
    /\ \A k \in 1..i : k \in DOMAIN points
                        => points[k] = Coord(RandFloat32(seed, k - 1))
    /\ \A r \in {RandValues[k] : k \in DOMAIN RandValues} :
         0 <= r /\ r < CoordOne /\ RoundF32(r) = r

C8_Witness ==
    /\ pc = "vshader"
    /\ i = NumValues
    /\ \E k \in DOMAIN points : points[k] = -CoordOne
    /\ \E k \in DOMAIN points : points[k] = CoordOne - 64
    /\ \E k \in DOMAIN points : points[k] = 0

\* --------------------------------------------------------------------- C9
\* C9: when the bind fails the server has served nothing, has called
\* ListenAndServe once, only reports the error and exits, and once exited it
\* stays exited without binding or serving again.
C9_BindFailureTerminates ==
    /\ [](srvErr = "bind" =>
            /\ srvServed = 0
            /\ srvBinds = 1
            /\ srvPc \in {"report", "exited"}
            /\ srvPc = "exited" => srvOut[Len(srvOut)] = "Server error:")
    /\ [][srvPc = "exited" =>
            /\ srvPc' = "exited"
            /\ srvServed' = srvServed
            /\ srvBinds' = srvBinds]_vars

C9_Witness == srvErr = "bind" /\ srvPc = "exited" /\ Len(srvOut) = 2

\* -------------------------------------------------------------------- C10
SetupCalls ==
    { <<"createBuffer", "">>, <<"bindBuffer", "ARRAY_BUFFER">>,
      <<"bufferData", "STATIC_DRAW">>,
      <<"createShader", "VERTEX_SHADER">>, <<"shaderSource", "VERTEX_SHADER">>,
      <<"compileShader", "VERTEX_SHADER">>,
      <<"createShader", "FRAGMENT_SHADER">>, <<"shaderSource", "FRAGMENT_SHADER">>,
      <<"compileShader", "FRAGMENT_SHADER">>,
      <<"createProgram", "">>, <<"attachShader", "VERTEX_SHADER">>,
      <<"attachShader", "FRAGMENT_SHADER">>, <<"linkProgram", "">>,
      <<"useProgram", "">>, <<"getAttribLocation", "position">>,
      <<"enableVertexAttribArray", "position">>,
      <<"vertexAttribPointer", "FLOAT">>,
      <<"getUniformLocation", "modelViewProjection">> }

Matching(sc) == {k \in DOMAIN calls : calls[k].fn = sc[1] /\ calls[k].tag = sc[2]}

\* C10: each setup call is made at most once; every registration of the
\* frame callback, every uniform upload and every draw call comes after all
\* of them; and a tick runs only after initialization has finished.
C10_NoTickBeforeSetup ==
    /\ \A sc \in SetupCalls : Cardinality(Matching(sc)) <= 1
    /\ \A k \in DOMAIN calls :
         calls[k].fn \in {"requestAnimationFrame", "uniformMatrix4fv", "drawArrays"}
           => \A sc \in SetupCalls : \E j \in Matching(sc) : j < k
    /\ (tick > 0 \/ pcR # "idle" \/ rafQueue > 0) => pc = "blocked"

C10_Witness ==
    /\ NumCalls("drawArrays") >= 1
    /\ \A sc \in SetupCalls : Cardinality(Matching(sc)) = 1
====
